---- MODULE Spec2Model ----
\* ALINE (geoffbacon/qp, historical/aline.py): the score matrix of align, the
\* retrieval of near-optimal alignments by _retrieve, and the scoring functions
\* sigma_skip, sigma_sub, sigma_exp, delta, diff, R and V over the shipped tables.
EXTENDS Integers, Sequences, FiniteSets, TLC

\* ---------------------------------------------------------------------------
\* Python floats (IEEE-754 binary64, round to nearest, ties to even).
\*
\* Every number the program computes is a decimal d (a multiple of 1/AUnit) plus
\* the rounding error accumulated so far. A float is the pair <<a, r>> with value
\*      a / AUnit  +  r / (RFive * 2^RExp),
\* a and r integers: a/AUnit is the decimal the exact arithmetic would give and r
\* the (tiny) distance of the binary64 value from it. In the binade
\* [2^e, 2^(e+1)) the binary64 values are the multiples of 2^(e-52), that is of
\* RFive * Grain(e) residue units, and Round moves r to the nearest such multiple.
\* ---------------------------------------------------------------------------
AUnit == 8 * 25
RFive == 5 * 25
RExp == 52 + 8

\* 2^(e-52) in residue units, divided by RFive.
Grain(e) == 2 ^ (e + RExp - 52)

\* The e with 2^e <= a/AUnit + (residue) < 2^(e+1), for a > 0: e0 is the e of
\* a/AUnit alone, and a negative residue below a power of two moves down one.
BinadeAt(a, r, e0) ==
  IF Grain(e0) * AUnit = a * Grain(0) /\ r < 0 THEN e0 - 1 ELSE e0

Binade(a, r) ==
  BinadeAt(a, r, CHOOSE e \in -8 .. 8 :
                   /\ Grain(e) * AUnit <= a * Grain(0)
                   /\ a * Grain(0) < 2 * Grain(e) * AUnit)

\* 2^n modulo 25 (2^20 = 1 modulo 25).
Pow2Mod25(n) == (2 ^ (n % 20)) % 25

\* The multiple c of the quantum q nearest to the offset x, a tie going to the
\* c that makes k + c even; k has the parity of m25.
Nearest(x, q, m25) ==
  IF 2 * (x % q) < q THEN x \div q
  ELSE IF 2 * (x % q) > q THEN (x \div q) + 1
  ELSE IF (m25 + (x \div q)) % 2 = 0 THEN x \div q ELSE (x \div q) + 1

\* a/AUnit = (25*k + m25)/25 quanta, so the value lies 5*m25*g + r residue units
\* above the k-th multiple of the quantum RFive*g, g the grain of the binade.
RoundAt(a, r, g, m25) ==
  <<a, Nearest(5 * m25 * g + r, RFive * g, m25) * RFive * g - 5 * m25 * g>>

\* m25 = a * 2^(49-e) mod 25 in the binade e.
RoundIn(a, r, e) ==
  RoundAt(a, r, Grain(e), ((a % 25) * Pow2Mod25(49 - e)) % 25)

\* The binary64 nearest to a/AUnit + r/(RFive*2^RExp), a > 0.
RoundPos(a, r) == RoundIn(a, r, Binade(a, r))

FNeg(x) == <<-x[1], -x[2]>>

FIsNeg(x) == x[1] < 0 \/ (x[1] = 0 /\ x[2] < 0)

\* Rounding is symmetric in the sign; a value with a = 0 is the exact difference
\* of two nearby floats, which binary64 holds exactly.
Round(x) ==
  IF x[1] = 0 THEN x
  ELSE IF x[1] < 0 THEN FNeg(RoundPos(-x[1], -x[2]))
  ELSE RoundPos(x[1], x[2])

\* A decimal literal such as 0.95, given as a = 190.
Lit(a) == Round(<<a, 0>>)

\* An int used in float arithmetic (exact).
FInt(k) == <<k * AUnit, 0>>

FAdd(x, y) == Round(<<x[1] + y[1], x[2] + y[2]>>)

FSub(x, y) == Round(<<x[1] - y[1], x[2] - y[2]>>)

FAbs(x) == IF FIsNeg(x) THEN FNeg(x) ELSE x

\* float * int
FMulInt(x, k) == Round(<<x[1] * k, x[2] * k>>)

\* float * float; the product of the two rounding errors (below 2^-100) is dropped.
FMul(x, y) ==
  Round(<<(x[1] * y[1]) \div AUnit, (x[2] * y[1] + y[2] * x[1]) \div AUnit>>)

FLt(x, y) == x[1] < y[1] \/ (x[1] = y[1] /\ x[2] < y[2])

FLe(x, y) == ~FLt(y, x)

FMax(x, y) == IF FLt(x, y) THEN y ELSE x

\* float('inf'), aline.py:61: above every finite score of the model.
inf == <<2 ^ 30, 0>>

\* ---------------------------------------------------------------------------
\* Constants and tables of the module.
\* ---------------------------------------------------------------------------
C_skip == 10
C_sub == 35
C_exp == 45
C_vwl == 5

\* A function as an explicit table, computed once.
Tabulate(f) == f @@ <<>>

\* A dict literal: the keys of the items, each with the value of its last item.
Dict(items) ==
  Tabulate([key \in {items[x][1] : x \in 1 .. Len(items)} |->
              items[CHOOSE x \in 1 .. Len(items) :
                      /\ items[x][1] = key
                      /\ \A y \in (x + 1) .. Len(items) : items[y][1] # key][2]])

\* The consonant list. Segments outside ASCII are written by code point
\* ("u03b8" is U+03B8); the entry "u0290 " carries the trailing blank of the source.
consonants ==
  {"B", "N", "R", "b", "c", "d", "f", "g", "h", "j", "k", "l", "m", "n", "p",
   "q", "r", "s", "t", "v", "x", "z", "u00e7", "u00f0", "u0127", "u014b",
   "u0256", "u025f", "u0262", "u0263", "u0266", "u026c", "u026e", "u0270",
   "u0271", "u0272", "u0273", "u0274", "u0278", "u0279", "u027b", "u027d",
   "u027e", "u0280", "u0281", "u0282", "u0283", "u0288", "u028b", "u0290 ",
   "u0292", "u0294", "u0295", "u0299", "u029d", "u03b2", "u03b8", "u03c7",
   "u0290", "w"}

\* The features compared for consonants and for vowels, in list order.
R_c ==
  <<"aspirated", "lateral", "manner", "nasal", "place", "retroflex",
    "syllabic", "voice">>

R_v ==
  <<"back", "lateral", "long", "manner", "nasal", "place", "retroflex",
    "round", "syllabic", "voice">>

\* The similarity scale: the decimal literals in units of 1/AUnit (0.95 is 190);
\* a value read from the table is the binary64 nearest to its literal. The key
\* "vowel" occurs twice (-1.0 among the places, 0.5 among the manners).
similarity_matrix ==
  Dict(<<<<"bilabial", 200>>, <<"labiodental", 190>>,
         <<"dental", 180>>, <<"alveolar", 170>>,
         <<"retroflex", 160>>, <<"palato-alveolar", 150>>,
         <<"palatal", 140>>, <<"velar", 120>>,
         <<"uvular", 100>>, <<"pharyngeal", 60>>,
         <<"glottal", 20>>, <<"labiovelar", 200>>,
         <<"vowel", -200>>, <<"stop", 200>>,
         <<"affricate", 180>>, <<"fricative", 160>>,
         <<"trill", 140>>, <<"tap", 130>>,
         <<"approximant", 120>>, <<"high vowel", 80>>,
         <<"mid vowel", 40>>, <<"low vowel", 0>>,
         <<"vowel", 100>>, <<"high", 200>>, <<"mid", 100>>,
         <<"low", 0>>, <<"front", 200>>, <<"central", 100>>,
         <<"back", 0>>, <<"plus", 200>>, <<"minus", 0>>>>)

\* The salience weights with manner weighing 10.
salienceManner10 ==
  Dict(<<<<"syllabic", 5>>, <<"place", 40>>, <<"manner", 10>>,
         <<"voice", 10>>, <<"nasal", 10>>, <<"retroflex", 10>>,
         <<"lateral", 10>>, <<"aspirated", 5>>, <<"long", 1>>, <<"high", 3>>,
         <<"back", 3>>, <<"round", 3>>>>)

\* The salience weights.
salience ==
  Dict(<<<<"syllabic", 5>>, <<"place", 40>>, <<"manner", 50>>,
         <<"voice", 10>>, <<"nasal", 10>>, <<"retroflex", 10>>,
         <<"lateral", 10>>, <<"aspirated", 5>>, <<"long", 1>>, <<"high", 3>>,
         <<"back", 3>>, <<"round", 3>>>>)

\* The feature table.
feature_matrix ==
  Dict(<<
    <<"p",
      [place |-> "bilabial", manner |-> "stop", syllabic |-> "minus",
       voice |-> "minus", nasal |-> "minus", retroflex |-> "minus",
       lateral |-> "minus", aspirated |-> "minus"]>>,
    <<"b",
      [place |-> "bilabial", manner |-> "stop", syllabic |-> "minus",
       voice |-> "plus", nasal |-> "minus", retroflex |-> "minus",
       lateral |-> "minus", aspirated |-> "minus"]>>,
    <<"t",
      [place |-> "alveolar", manner |-> "stop", syllabic |-> "minus",
       voice |-> "minus", nasal |-> "minus", retroflex |-> "minus",
       lateral |-> "minus", aspirated |-> "minus"]>>,
    <<"d",
      [place |-> "alveolar", manner |-> "stop", syllabic |-> "minus",
       voice |-> "plus", nasal |-> "minus", retroflex |-> "minus",
       lateral |-> "minus", aspirated |-> "minus"]>>,
    <<"u0288",
      [place |-> "retroflex", manner |-> "stop", syllabic |-> "minus",
       voice |-> "minus", nasal |-> "minus", retroflex |-> "plus",
       lateral |-> "minus", aspirated |-> "minus"]>>,
    <<"u0256",
      [place |-> "retroflex", manner |-> "stop", syllabic |-> "minus",
       voice |-> "plus", nasal |-> "minus", retroflex |-> "plus",
       lateral |-> "minus", aspirated |-> "minus"]>>,
    <<"c",
      [place |-> "palatal", manner |-> "stop", syllabic |-> "minus",
       voice |-> "minus", nasal |-> "minus", retroflex |-> "minus",
       lateral |-> "minus", aspirated |-> "minus"]>>,
    <<"u025f",
      [place |-> "palatal", manner |-> "stop", syllabic |-> "minus",
       voice |-> "plus", nasal |-> "minus", retroflex |-> "minus",
       lateral |-> "minus", aspirated |-> "minus"]>>,
    <<"k",
      [place |-> "velar", manner |-> "stop", syllabic |-> "minus",
       voice |-> "minus", nasal |-> "minus", retroflex |-> "minus",
       lateral |-> "minus", aspirated |-> "minus"]>>,
    <<"g",
      [place |-> "velar", manner |-> "stop", syllabic |-> "minus",
       voice |-> "plus", nasal |-> "minus", retroflex |-> "minus",
       lateral |-> "minus", aspirated |-> "minus"]>>,
    <<"q",
      [place |-> "uvular", manner |-> "stop", syllabic |-> "minus",
       voice |-> "minus", nasal |-> "minus", retroflex |-> "minus",
       lateral |-> "minus", aspirated |-> "minus"]>>,
    <<"u0262",
      [place |-> "uvular", manner |-> "stop", syllabic |-> "minus",
       voice |-> "plus", nasal |-> "minus", retroflex |-> "minus",
       lateral |-> "minus", aspirated |-> "minus"]>>,
    <<"u0294",
      [place |-> "glottal", manner |-> "stop", syllabic |-> "minus",
       voice |-> "minus", nasal |-> "minus", retroflex |-> "minus",
       lateral |-> "minus", aspirated |-> "minus"]>>,
    <<"m",
      [place |-> "bilabial", manner |-> "stop", syllabic |-> "minus",
       voice |-> "plus", nasal |-> "plus", retroflex |-> "minus",
       lateral |-> "minus", aspirated |-> "minus"]>>,
    <<"u0271",
      [place |-> "labiodental", manner |-> "stop", syllabic |-> "minus",
       voice |-> "plus", nasal |-> "plus", retroflex |-> "minus",
       lateral |-> "minus", aspirated |-> "minus"]>>,
    <<"n",
      [place |-> "alveolar", manner |-> "stop", syllabic |-> "minus",
       voice |-> "plus", nasal |-> "plus", retroflex |-> "minus",
       lateral |-> "minus", aspirated |-> "minus"]>>,
    <<"u0273",
      [place |-> "retroflex", manner |-> "stop", syllabic |-> "minus",
       voice |-> "plus", nasal |-> "plus", retroflex |-> "plus",
       lateral |-> "minus", aspirated |-> "minus"]>>,
    <<"u0272",
      [place |-> "palatal", manner |-> "stop", syllabic |-> "minus",
       voice |-> "plus", nasal |-> "plus", retroflex |-> "minus",
       lateral |-> "minus", aspirated |-> "minus"]>>,
    <<"u014b",
      [place |-> "velar", manner |-> "stop", syllabic |-> "minus",
       voice |-> "plus", nasal |-> "plus", retroflex |-> "minus",
       lateral |-> "minus", aspirated |-> "minus"]>>,
    <<"u0274",
      [place |-> "uvular", manner |-> "stop", syllabic |-> "minus",
       voice |-> "plus", nasal |-> "plus", retroflex |-> "minus",
       lateral |-> "minus", aspirated |-> "minus"]>>,
    <<"N",
      [place |-> "uvular", manner |-> "stop", syllabic |-> "minus",
       voice |-> "plus", nasal |-> "plus", retroflex |-> "minus",
       lateral |-> "minus", aspirated |-> "minus"]>>,
    <<"u0299",
      [place |-> "bilabial", manner |-> "trill", syllabic |-> "minus",
       voice |-> "plus", nasal |-> "minus", retroflex |-> "minus",
       lateral |-> "minus", aspirated |-> "minus"]>>,
    <<"B",
      [place |-> "bilabial", manner |-> "trill", syllabic |-> "minus",
       voice |-> "plus", nasal |-> "minus", retroflex |-> "minus",
       lateral |-> "minus", aspirated |-> "minus"]>>,
    <<"r",
      [place |-> "alveolar", manner |-> "trill", syllabic |-> "minus",
       voice |-> "plus", nasal |-> "minus", retroflex |-> "plus",
       lateral |-> "minus", aspirated |-> "minus"]>>,
    <<"u0280",
      [place |-> "uvular", manner |-> "trill", syllabic |-> "minus",
       voice |-> "plus", nasal |-> "minus", retroflex |-> "minus",
       lateral |-> "minus", aspirated |-> "minus"]>>,
    <<"R",
      [place |-> "uvular", manner |-> "trill", syllabic |-> "minus",
       voice |-> "plus", nasal |-> "minus", retroflex |-> "minus",
       lateral |-> "minus", aspirated |-> "minus"]>>,
    <<"u027e",
      [place |-> "alveolar", manner |-> "tap", syllabic |-> "minus",
       voice |-> "plus", nasal |-> "minus", retroflex |-> "minus",
       lateral |-> "minus", aspirated |-> "minus"]>>,
    <<"u027d",
      [place |-> "retroflex", manner |-> "tap", syllabic |-> "minus",
       voice |-> "plus", nasal |-> "minus", retroflex |-> "plus",
       lateral |-> "minus", aspirated |-> "minus"]>>,
    <<"u0278",
      [place |-> "bilabial", manner |-> "fricative", syllabic |-> "minus",
       voice |-> "minus", nasal |-> "minus", retroflex |-> "minus",
       lateral |-> "minus", aspirated |-> "minus"]>>,
    <<"u03b2",
      [place |-> "bilabial", manner |-> "fricative", syllabic |-> "minus",
       voice |-> "plus", nasal |-> "minus", retroflex |-> "minus",
       lateral |-> "minus", aspirated |-> "minus"]>>,
    <<"f",
      [place |-> "labiodental", manner |-> "fricative", syllabic |-> "minus",
       voice |-> "minus", nasal |-> "minus", retroflex |-> "minus",
       lateral |-> "minus", aspirated |-> "minus"]>>,
    <<"v",
      [place |-> "labiodental", manner |-> "fricative", syllabic |-> "minus",
       voice |-> "plus", nasal |-> "minus", retroflex |-> "minus",
       lateral |-> "minus", aspirated |-> "minus"]>>,
    <<"u03b8",
      [place |-> "dental", manner |-> "fricative", syllabic |-> "minus",
       voice |-> "minus", nasal |-> "minus", retroflex |-> "minus",
       lateral |-> "minus", aspirated |-> "minus"]>>,
    <<"u00f0",
      [place |-> "labiodental", manner |-> "fricative", syllabic |-> "minus",
       voice |-> "plus", nasal |-> "minus", retroflex |-> "minus",
       lateral |-> "minus", aspirated |-> "minus"]>>,
    <<"s",
      [place |-> "alveolar", manner |-> "fricative", syllabic |-> "minus",
       voice |-> "minus", nasal |-> "minus", retroflex |-> "minus",
       lateral |-> "minus", aspirated |-> "minus"]>>,
    <<"z",
      [place |-> "alveolar", manner |-> "fricative", syllabic |-> "minus",
       voice |-> "plus", nasal |-> "minus", retroflex |-> "minus",
       lateral |-> "minus", aspirated |-> "minus"]>>,
    <<"u0283",
      [place |-> "palato-alveolar", manner |-> "fricative",
       syllabic |-> "minus", voice |-> "minus", nasal |-> "minus",
       retroflex |-> "minus", lateral |-> "minus", aspirated |-> "minus"]>>,
    <<"u0292",
      [place |-> "palato-alveolar", manner |-> "fricative",
       syllabic |-> "minus", voice |-> "plus", nasal |-> "minus",
       retroflex |-> "minus", lateral |-> "minus", aspirated |-> "minus"]>>,
    <<"u0282",
      [place |-> "retroflex", manner |-> "fricative", syllabic |-> "minus",
       voice |-> "minus", nasal |-> "minus", retroflex |-> "plus",
       lateral |-> "minus", aspirated |-> "minus"]>>,
    <<"u0290",
      [place |-> "retroflex", manner |-> "fricative", syllabic |-> "minus",
       voice |-> "plus", nasal |-> "minus", retroflex |-> "plus",
       lateral |-> "minus", aspirated |-> "minus"]>>,
    <<"u00e7",
      [place |-> "palatal", manner |-> "fricative", syllabic |-> "minus",
       voice |-> "minus", nasal |-> "minus", retroflex |-> "minus",
       lateral |-> "minus", aspirated |-> "minus"]>>,
    <<"u029d",
      [place |-> "palatal", manner |-> "fricative", syllabic |-> "minus",
       voice |-> "plus", nasal |-> "minus", retroflex |-> "minus",
       lateral |-> "minus", aspirated |-> "minus"]>>,
    <<"x",
      [place |-> "velar", manner |-> "fricative", syllabic |-> "minus",
       voice |-> "minus", nasal |-> "minus", retroflex |-> "minus",
       lateral |-> "minus", aspirated |-> "minus"]>>,
    <<"u0263",
      [place |-> "velar", manner |-> "fricative", syllabic |-> "minus",
       voice |-> "plus", nasal |-> "minus", retroflex |-> "minus",
       lateral |-> "minus", aspirated |-> "minus"]>>,
    <<"u03c7",
      [place |-> "uvular", manner |-> "fricative", syllabic |-> "minus",
       voice |-> "minus", nasal |-> "minus", retroflex |-> "minus",
       lateral |-> "minus", aspirated |-> "minus"]>>,
    <<"u0281",
      [place |-> "uvular", manner |-> "fricative", syllabic |-> "minus",
       voice |-> "plus", nasal |-> "minus", retroflex |-> "minus",
       lateral |-> "minus", aspirated |-> "minus"]>>,
    <<"u0127",
      [place |-> "pharyngeal", manner |-> "fricative", syllabic |-> "minus",
       voice |-> "minus", nasal |-> "minus", retroflex |-> "minus",
       lateral |-> "minus", aspirated |-> "minus"]>>,
    <<"u0295",
      [place |-> "pharyngeal", manner |-> "fricative", syllabic |-> "minus",
       voice |-> "plus", nasal |-> "minus", retroflex |-> "minus",
       lateral |-> "minus", aspirated |-> "minus"]>>,
    <<"h",
      [place |-> "glottal", manner |-> "fricative", syllabic |-> "minus",
       voice |-> "minus", nasal |-> "minus", retroflex |-> "minus",
       lateral |-> "minus", aspirated |-> "minus"]>>,
    <<"u0266",
      [place |-> "glottal", manner |-> "fricative", syllabic |-> "minus",
       voice |-> "plus", nasal |-> "minus", retroflex |-> "minus",
       lateral |-> "minus", aspirated |-> "minus"]>>,
    <<"u026c",
      [place |-> "alveolar", manner |-> "fricative", syllabic |-> "minus",
       voice |-> "minus", nasal |-> "minus", retroflex |-> "minus",
       lateral |-> "plus", aspirated |-> "minus"]>>,
    <<"u026e",
      [place |-> "alveolar", manner |-> "fricative", syllabic |-> "minus",
       voice |-> "plus", nasal |-> "minus", retroflex |-> "minus",
       lateral |-> "plus", aspirated |-> "minus"]>>,
    <<"u028b",
      [place |-> "labiodental", manner |-> "approximant",
       syllabic |-> "minus", voice |-> "plus", nasal |-> "minus",
       retroflex |-> "minus", lateral |-> "minus", aspirated |-> "minus"]>>,
    <<"u0279",
      [place |-> "alveolar", manner |-> "approximant", syllabic |-> "minus",
       voice |-> "plus", nasal |-> "minus", retroflex |-> "minus",
       lateral |-> "minus", aspirated |-> "minus"]>>,
    <<"u027b",
      [place |-> "retroflex", manner |-> "approximant", syllabic |-> "minus",
       voice |-> "plus", nasal |-> "minus", retroflex |-> "plus",
       lateral |-> "minus", aspirated |-> "minus"]>>,
    <<"j",
      [place |-> "palatal", manner |-> "approximant", syllabic |-> "minus",
       voice |-> "plus", nasal |-> "minus", retroflex |-> "minus",
       lateral |-> "minus", aspirated |-> "minus"]>>,
    <<"u0270",
      [place |-> "velar", manner |-> "approximant", syllabic |-> "minus",
       voice |-> "plus", nasal |-> "minus", retroflex |-> "minus",
       lateral |-> "minus", aspirated |-> "minus"]>>,
    <<"l",
      [place |-> "alveolar", manner |-> "approximant", syllabic |-> "minus",
       voice |-> "plus", nasal |-> "minus", retroflex |-> "minus",
       lateral |-> "plus", aspirated |-> "minus"]>>,
    <<"w",
      [place |-> "labiovelar", manner |-> "approximant",
       syllabic |-> "minus", voice |-> "plus", nasal |-> "minus",
       retroflex |-> "minus", lateral |-> "minus", aspirated |-> "minus"]>>,
    <<"i",
      [place |-> "vowel", manner |-> "vowel", syllabic |-> "plus",
       voice |-> "plus", nasal |-> "minus", retroflex |-> "minus",
       lateral |-> "minus", high |-> "high", back |-> "front",
       round |-> "minus", long |-> "minus", aspirated |-> "minus"]>>,
    <<"y",
      [place |-> "vowel", manner |-> "vowel", syllabic |-> "plus",
       voice |-> "plus", nasal |-> "minus", retroflex |-> "minus",
       lateral |-> "minus", high |-> "high", back |-> "front",
       round |-> "plus", long |-> "minus", aspirated |-> "minus"]>>,
    <<"e",
      [place |-> "vowel", manner |-> "vowel", syllabic |-> "plus",
       voice |-> "plus", nasal |-> "minus", retroflex |-> "minus",
       lateral |-> "minus", high |-> "mid", back |-> "front",
       round |-> "minus", long |-> "minus", aspirated |-> "minus"]>>,
    <<"u00f8",
      [place |-> "vowel", manner |-> "vowel", syllabic |-> "plus",
       voice |-> "plus", nasal |-> "minus", retroflex |-> "minus",
       lateral |-> "minus", high |-> "mid", back |-> "front",
       round |-> "plus", long |-> "minus", aspirated |-> "minus"]>>,
    <<"u025b",
      [place |-> "vowel", manner |-> "vowel", syllabic |-> "plus",
       voice |-> "plus", nasal |-> "minus", retroflex |-> "minus",
       lateral |-> "minus", high |-> "mid", back |-> "front",
       round |-> "minus", long |-> "minus", aspirated |-> "minus"]>>,
    <<"u0153",
      [place |-> "vowel", manner |-> "vowel", syllabic |-> "plus",
       voice |-> "plus", nasal |-> "minus", retroflex |-> "minus",
       lateral |-> "minus", high |-> "mid", back |-> "front",
       round |-> "plus", long |-> "minus", aspirated |-> "minus"]>>,
    <<"a",
      [place |-> "vowel", manner |-> "vowel", syllabic |-> "plus",
       voice |-> "plus", nasal |-> "minus", retroflex |-> "minus",
       lateral |-> "minus", high |-> "low", back |-> "front",
       round |-> "minus", long |-> "minus", aspirated |-> "minus"]>>,
    <<"u0268",
      [place |-> "vowel", manner |-> "vowel", syllabic |-> "plus",
       voice |-> "plus", nasal |-> "minus", retroflex |-> "minus",
       lateral |-> "minus", high |-> "high", back |-> "central",
       round |-> "minus", long |-> "minus", aspirated |-> "minus"]>>,
    <<"u0289",
      [place |-> "vowel", manner |-> "vowel", syllabic |-> "plus",
       voice |-> "plus", nasal |-> "minus", retroflex |-> "minus",
       lateral |-> "minus", high |-> "high", back |-> "central",
       round |-> "plus", long |-> "minus", aspirated |-> "minus"]>>,
    <<"u0259",
      [place |-> "vowel", manner |-> "vowel", syllabic |-> "plus",
       voice |-> "plus", nasal |-> "minus", retroflex |-> "minus",
       lateral |-> "minus", high |-> "mid", back |-> "central",
       round |-> "minus", long |-> "minus", aspirated |-> "minus"]>>,
    <<"u",
      [place |-> "vowel", manner |-> "vowel", syllabic |-> "plus",
       voice |-> "plus", nasal |-> "minus", retroflex |-> "minus",
       lateral |-> "minus", high |-> "high", back |-> "back",
       round |-> "plus", long |-> "minus", aspirated |-> "minus"]>>,
    <<"o",
      [place |-> "vowel", manner |-> "vowel", syllabic |-> "plus",
       voice |-> "plus", nasal |-> "minus", retroflex |-> "minus",
       lateral |-> "minus", high |-> "mid", back |-> "back",
       round |-> "plus", long |-> "minus", aspirated |-> "minus"]>>,
    <<"u0254",
      [place |-> "vowel", manner |-> "vowel", syllabic |-> "plus",
       voice |-> "plus", nasal |-> "minus", retroflex |-> "minus",
       lateral |-> "minus", high |-> "mid", back |-> "back",
       round |-> "plus", long |-> "minus", aspirated |-> "minus"]>>,
    <<"u0252",
      [place |-> "vowel", manner |-> "vowel", syllabic |-> "plus",
       voice |-> "plus", nasal |-> "minus", retroflex |-> "minus",
       lateral |-> "minus", high |-> "low", back |-> "back",
       round |-> "minus", long |-> "minus", aspirated |-> "minus"]>>
  >>)

\* sounds, the keys of the feature table.
sounds == DOMAIN feature_matrix

\* ---------------------------------------------------------------------------
\* Scoring functions. A lookup of a missing key raises KeyError: the *Raises
\* operators tell when, the value operators are used only when nothing raises.
\* ---------------------------------------------------------------------------

\* R(p, q): the relevant features for the comparison of p and q.
\* Mutant of R: the consonant features only when both segments are consonants.
RBothConsonants(p, q) ==
  IF p \in consonants /\ q \in consonants THEN R_c ELSE R_v

R(p, q) == IF p \in consonants \/ q \in consonants THEN R_c ELSE R_v

\* V(p): the vowel weight.
\* Mutant of V: C_vwl for every segment.
VAlways(p) == C_vwl

V(p) == IF p \in consonants THEN 0 ELSE C_vwl

\* diff(p, q, f) raises KeyError: feature_matrix[p], feature_matrix[q],
\* p_features[f], q_features[f] and the two similarity_matrix lookups.
diffRaises(p, q, f) ==
  \/ p \notin DOMAIN feature_matrix
  \/ q \notin DOMAIN feature_matrix
  \/ f \notin DOMAIN feature_matrix[p]
  \/ feature_matrix[p][f] \notin DOMAIN similarity_matrix
  \/ f \notin DOMAIN feature_matrix[q]
  \/ feature_matrix[q][f] \notin DOMAIN similarity_matrix

\* Mutant of diff: the difference without abs().
diffSigned(p, q, f) ==
  FSub(Lit(similarity_matrix[feature_matrix[p][f]]),
       Lit(similarity_matrix[feature_matrix[q][f]]))

diff(p, q, f) ==
  FAbs(FSub(Lit(similarity_matrix[feature_matrix[p][f]]),
            Lit(similarity_matrix[feature_matrix[q][f]])))

deltaRaises(p, q) ==
  \E k \in 1 .. Len(R(p, q)) :
    diffRaises(p, q, R(p, q)[k]) \/ R(p, q)[k] \notin DOMAIN salience

\* total after the first k features of the list.
RECURSIVE deltaTotal(_, _, _, _)
deltaTotal(p, q, features, k) ==
  IF k = 0 THEN FInt(0)
  ELSE FAdd(deltaTotal(p, q, features, k - 1),
            FMulInt(diff(p, q, features[k]), salience[features[k]]))

delta(p, q) == deltaTotal(p, q, R(p, q), Len(R(p, q)))

\* Mutant of sigma_skip: a skip scores half of C_skip.
sigma_skipHalf(p) == FInt(C_skip \div 2)

\* Mutant of sigma_skip: a skip scores nothing.
sigma_skipFree(p) == FInt(0)

\* Mutant of sigma_skip: a skip is penalised.
sigma_skipPenalty(p) == FNeg(FInt(C_skip))

sigma_skip(p) == FInt(C_skip)

sigma_subRaises(p, q) == deltaRaises(p, q)

\* Mutant of sigma_sub: the vowel weight of q forgotten.
sigma_subOneV(p, q) == FSub(FSub(FInt(C_sub), delta(p, q)), FInt(V(p)))

sigma_sub(p, q) ==
  FSub(FSub(FSub(FInt(C_sub), delta(p, q)), FInt(V(p))), FInt(V(q)))

\* q is a slice of two segments.
sigma_expRaises(p, q) == deltaRaises(p, q[1]) \/ deltaRaises(p, q[2])

IMax(x, y) == IF x < y THEN y ELSE x

\* Mutant of sigma_exp: V(q[0]) + V(q[1]) in place of their max.
sigma_expBothV(p, q) ==
  FSub(FSub(FSub(FSub(FInt(C_exp), delta(p, q[1])), delta(p, q[2])),
            FInt(V(p))),
       FInt(V(q[1]) + V(q[2])))

sigma_exp(p, q) ==
  FSub(FSub(FSub(FSub(FInt(C_exp), delta(p, q[1])), delta(p, q[2])),
            FInt(V(p))),
       FInt(IMax(V(q[1]), V(q[2]))))

\* ---------------------------------------------------------------------------
\* State.
\* ---------------------------------------------------------------------------
VARIABLES
  str1, str2, epsilon,   \* the arguments of align
  pc,                    \* "fill", "scan", "retrieve", "done" (returned),
                         \* "raised" (KeyError left align); "score" in SpecScore
  S,                     \* the score matrix, S[<<row, column>>]
  i, j,                  \* the loop variables of align
  T,                     \* the threshold
  alignments,            \* the list align returns
  ri, rj, s, out,        \* the arguments i, j, s, out of the running _retrieve
  log,                   \* history: per returned alignment, where its retrieval
                         \* started and stopped and the s it had reached
  seg_p, seg_q,          \* SpecScore: the arguments of a scoring function
  called, ret,           \* SpecScore: the function called, and whether it
                         \* raised KeyError or the value it returned
  prev                   \* SpecAgain: the epsilon and the result of the earlier
                         \* calls of align on the same two sequences

vars ==
  <<str1, str2, epsilon, pc, S, i, j, T, alignments, ri, rj, s, out, log,
    seg_p, seg_q, called, ret, prev>>

\* ---------------------------------------------------------------------------
\* Inputs of the model.
\* ---------------------------------------------------------------------------
MaxLen1 == 2
MaxLen2 == 3

\* Three table segments (two consonants and a vowel) and "1", which has no
\* feature table entry.
Alphabet == {"j", "R", "o", "1"}

\* 0, 0.5 and 1.
Epsilons == {FInt(0), Lit(AUnit \div 2), FInt(1)}

\* The two examples of the module docstring: align('\u03b8in', 'tenwis') and
\* align('t\u0259\u014b', 'tsu\u014b\u0259', 0.1), 0.1 being the literal 20/AUnit.
DocExamples ==
  {<<(<<"u03b8", "i", "n">>), (<<"t", "e", "n", "w", "i", "s">>), FInt(0)>>,
   <<(<<"t", "u0259", "u014b">>),
     (<<"t", "s", "u", "u014b", "u0259">>), Lit(20)>>}

Segments(w) == {w[k] : k \in 1 .. Len(w)}

DocAlphabet == UNION {Segments(d[1]) \cup Segments(d[2]) : d \in DocExamples}

SeqsUpTo(A, n) == UNION {[1 .. k -> A] : k \in 0 .. n}

\* sigma_sub and sigma_exp are pure: their values on the table segments of the
\* alphabet are computed once, as explicit tables, and the calls made by align
\* and _retrieve read them there.
Scored == (Alphabet \cup DocAlphabet) \cap sounds

sub_memo ==
  Tabulate([pq \in Scored \X Scored |-> sigma_sub(pq[1], pq[2])])

\* The arguments sigma_exp can get: a segment of one sequence and two adjacent
\* segments of the other.
Adjacent(w) == {<<w[k], w[k + 1]>> : k \in 1 .. (Len(w) - 1)}

DocExpArgs ==
  UNION {(Segments(d[1]) \X Adjacent(d[2])) \cup (Segments(d[2]) \X Adjacent(d[1])) :
           d \in DocExamples}

ExpArgs ==
  {<<pq[1], pq[2], pq[3]>> :
     pq \in (Alphabet \cap sounds) \X (Alphabet \cap sounds) \X (Alphabet \cap sounds)}
    \cup {<<pq[1], pq[2][1], pq[2][2]>> : pq \in DocExpArgs}

exp_memo ==
  Tabulate([pq \in ExpArgs |-> sigma_exp(pq[1], <<pq[2], pq[3]>>)])

sub_score(p, q) == sub_memo[<<p, q>>]

exp_score(p, q) == exp_memo[<<p, q[1], q[2]>>]

m == Len(str1)
n == Len(str2)

\* ---------------------------------------------------------------------------
\* align: the matrix fill.
\* ---------------------------------------------------------------------------

\* np.zeros((m+1, n+1), dtype=float)
Zeros(rows, cols) == [c \in (0 .. rows) \X (0 .. cols) |-> FInt(0)]

\* Mutants of ScanRowFirst and ScanColFirst: a scan that starts at row 0, at
\* column 0.
ScanRowFirstZero == 1 - 1

ScanColFirstZero == 1 - 1

\* Mutant of FillFirst: a fill that starts at row 0 and column 0.
FillFirstZero == 1 - 1

\* range(1, m+1), range(1, n+1) of the fill and of the scan
FillFirst == 1
ScanRowFirst == 1
ScanColFirst == 1

\* The position of two nested for loops with the inner one over first .. n.
LoopDone(a, first) == a > m \/ n < first

LoopNext(a, b, first) == IF b < n THEN <<a, b + 1>> ELSE <<a + 1, first>>

edit1(M, a, b) == FAdd(M[<<a - 1, b>>], sigma_skip(str1[a]))

edit2(M, a, b) == FAdd(M[<<a, b - 1>>], sigma_skip(str2[b]))

\* Mutant of edit3: the substitution read from the cell above.
edit3Above(M, a, b) == FAdd(M[<<a - 1, b>>], sub_score(str1[a], str2[b]))

edit3(M, a, b) == FAdd(M[<<a - 1, b - 1>>], sub_score(str1[a], str2[b]))

edit4(M, a, b) ==
  IF a > 1
  THEN FAdd(M[<<a - 2, b - 1>>], exp_score(str2[b], SubSeq(str1, a - 1, a)))
  ELSE FNeg(inf)

edit5(M, a, b) ==
  IF b > 1
  THEN FAdd(M[<<a - 1, b - 2>>], exp_score(str1[a], SubSeq(str2, b - 1, b)))
  ELSE FNeg(inf)

\* Mutant of OnKeyError: the error swallowed and the empty list returned.
OnKeyErrorSwallowed == "done"

\* No caller catches the KeyError of a lookup: it leaves align.
OnKeyError == "raised"

\* A lookup made for cell (a, b) raises KeyError.
CellRaises(a, b) ==
  \/ sigma_subRaises(str1[a], str2[b])
  \/ a > 1 /\ sigma_expRaises(str2[b], SubSeq(str1, a - 1, a))
  \/ b > 1 /\ sigma_expRaises(str1[a], SubSeq(str2, b - 1, b))

\* Mutant of CellValue: min in place of max.
FMin(x, y) == IF FLt(y, x) THEN y ELSE x

CellValueMin(M, a, b) ==
  FMin(FMin(FMin(FMin(FMin(edit1(M, a, b), edit2(M, a, b)), edit3(M, a, b)),
                 edit4(M, a, b)),
            edit5(M, a, b)),
       FInt(0))

\* max(edit1, edit2, edit3, edit4, edit5, 0)
CellValue(M, a, b) ==
  FMax(FMax(FMax(FMax(FMax(edit1(M, a, b), edit2(M, a, b)), edit3(M, a, b)),
                 edit4(M, a, b)),
            edit5(M, a, b)),
       FInt(0))

FillCell ==
  /\ pc = "fill"
  /\ ~LoopDone(i, FillFirst)
  /\ IF CellRaises(i, j)
     THEN /\ pc' = OnKeyError
          /\ UNCHANGED <<S, i, j>>
     ELSE /\ S' = [S EXCEPT ![<<i, j>>] = CellValue(S, i, j)]
          /\ i' = LoopNext(i, j, FillFirst)[1]
          /\ j' = LoopNext(i, j, FillFirst)[2]
          /\ pc' = "fill"
  /\ UNCHANGED <<str1, str2, epsilon, T, alignments, ri, rj, s, out, log,
                 seg_p, seg_q, called, ret, prev>>

\* np.amax(S)
RECURSIVE amaxOver(_, _)
amaxOver(M, cells) ==
  IF cells = {} THEN FNeg(inf)
  ELSE LET c == CHOOSE d \in cells : TRUE
       IN  FMax(M[c], amaxOver(M, cells \ {c}))

amax(M) == amaxOver(M, DOMAIN M)

\* Mutant of ThresholdValue: epsilon*np.amax(S).
ThresholdValueEpsilon(e, M) == FMul(e, amax(M))

\* (1-epsilon)*np.amax(S)
ThresholdValue(e, M) == FMul(FSub(FInt(1), e), amax(M))

\* T = (1-epsilon)*np.amax(S); alignments = []; the scan loops start.
Threshold ==
  /\ pc = "fill"
  /\ LoopDone(i, FillFirst)
  /\ T' = ThresholdValue(epsilon, S)
  /\ alignments' = <<>>
  /\ i' = ScanRowFirst
  /\ j' = ScanColFirst
  /\ pc' = "scan"
  /\ UNCHANGED <<str1, str2, epsilon, S, ri, rj, s, out, log,
                 seg_p, seg_q, called, ret, prev>>

\* ---------------------------------------------------------------------------
\* align: the scan for starting cells, and _retrieve.
\* ---------------------------------------------------------------------------

\* The five moves of _retrieve at cell (a, b), in the order of its if/elif
\* chain: the cell the move continues from, the pair it prepends, its score.
MovePred(k, a, b) ==
  CASE k = 1 -> <<a - 1, b - 2>>
    [] k = 2 -> <<a - 2, b - 1>>
    [] k = 3 -> <<a - 1, b - 1>>
    [] k = 4 -> <<a, b - 1>>
    [] k = 5 -> <<a - 1, b>>

\* Mutant of MovePair: the first branch prepends one segment of str2, not two.
MovePairOneSegment(k, a, b) ==
  CASE k = 1 -> <<SubSeq(str1, a, a), SubSeq(str2, b, b)>>
    [] k = 2 -> <<SubSeq(str1, a - 1, a), SubSeq(str2, b, b)>>
    [] k = 3 -> <<SubSeq(str1, a, a), SubSeq(str2, b, b)>>
    [] k = 4 -> <<(<<"-">>), SubSeq(str2, b, b)>>
    [] k = 5 -> <<SubSeq(str1, a, a), (<<"-">>)>>

MovePair(k, a, b) ==
  CASE k = 1 -> <<SubSeq(str1, a, a), SubSeq(str2, b - 1, b)>>
    [] k = 2 -> <<SubSeq(str1, a - 1, a), SubSeq(str2, b, b)>>
    [] k = 3 -> <<SubSeq(str1, a, a), SubSeq(str2, b, b)>>
    [] k = 4 -> <<(<<"-">>), SubSeq(str2, b, b)>>
    [] k = 5 -> <<SubSeq(str1, a, a), (<<"-">>)>>

MoveScore(k, a, b) ==
  CASE k = 1 -> exp_score(str1[a], SubSeq(str2, b - 1, b))
    [] k = 2 -> exp_score(str2[b], SubSeq(str1, a - 1, a))
    [] k = 3 -> sub_score(str1[a], str2[b])
    [] k = 4 -> sigma_skip(str2[b])
    [] k = 5 -> sigma_skip(str1[a])

\* Mutant of MoveTest: the two expansion branches never taken.
MoveTestNoExpansion(k, a, b, acc) ==
  /\ k \notin {1, 2}
  /\ FLe(T, FAdd(FAdd(S[MovePred(k, a, b)], MoveScore(k, a, b)), acc))

\* The condition of the k-th branch: S[predecessor] + score + s >= T, behind
\* j > 1 for the first branch and i > 1 for the second.
MoveTest(k, a, b, acc) ==
  /\ k = 1 => b > 1
  /\ k = 2 => a > 1
  /\ FLe(T, FAdd(FAdd(S[MovePred(k, a, b)], MoveScore(k, a, b)), acc))

\* Mutant of MoveTaken: the substitution tested before the two expansions.
MoveTakenSubFirst(a, b, acc) ==
  IF MoveTest(3, a, b, acc) THEN 3
  ELSE IF MoveTest(1, a, b, acc) THEN 1
  ELSE IF MoveTest(2, a, b, acc) THEN 2
  ELSE IF MoveTest(4, a, b, acc) THEN 4
  ELSE IF MoveTest(5, a, b, acc) THEN 5
  ELSE 0

\* The branch the if/elif chain takes, 0 when it takes none.
MoveTaken(a, b, acc) ==
  IF MoveTest(1, a, b, acc) THEN 1
  ELSE IF MoveTest(2, a, b, acc) THEN 2
  ELSE IF MoveTest(3, a, b, acc) THEN 3
  ELSE IF MoveTest(4, a, b, acc) THEN 4
  ELSE IF MoveTest(5, a, b, acc) THEN 5
  ELSE 0

\* One pass of the scan loops over a cell below the threshold.
ScanSkip ==
  /\ pc = "scan"
  /\ ~LoopDone(i, ScanColFirst)
  /\ ~FLe(T, S[<<i, j>>])
  /\ i' = LoopNext(i, j, ScanColFirst)[1]
  /\ j' = LoopNext(i, j, ScanColFirst)[2]
  /\ UNCHANGED <<str1, str2, epsilon, pc, S, T, alignments, ri, rj, s, out,
                 log, seg_p, seg_q, called, ret, prev>>

\* S[i,j] >= T: the call _retrieve(i, j, 0, S, T, str1, str2, []).
ScanStart ==
  /\ pc = "scan"
  /\ ~LoopDone(i, ScanColFirst)
  /\ FLe(T, S[<<i, j>>])
  /\ ri' = i
  /\ rj' = j
  /\ s' = FInt(0)
  /\ out' = <<>>
  /\ pc' = "retrieve"
  /\ UNCHANGED <<str1, str2, epsilon, S, i, j, T, alignments, log,
                 seg_p, seg_q, called, ret, prev>>

\* A call of _retrieve that takes a branch: out.insert(0, pair) and the
\* recursive call on the predecessor with s + score.
Retrieve ==
  /\ pc = "retrieve"
  /\ S[<<ri, rj>>] # FInt(0)
  /\ \E k \in 1 .. 5 :
       /\ k = MoveTaken(ri, rj, s)
       /\ out' = <<MovePair(k, ri, rj)>> \o out
       /\ s' = FAdd(s, MoveScore(k, ri, rj))
       /\ ri' = MovePred(k, ri, rj)[1]
       /\ rj' = MovePred(k, ri, rj)[2]
  /\ UNCHANGED <<str1, str2, epsilon, pc, S, i, j, T, alignments, log,
                 seg_p, seg_q, called, ret, prev>>

\* Mutant of Collect: an alignment equal to one already in the list is dropped.
CollectNew(list, al) ==
  IF \E k \in 1 .. Len(list) : list[k] = al THEN list ELSE Append(list, al)

\* alignments.append(...)
Collect(list, al) == Append(list, al)

\* The innermost call returns out (S[i,j] == 0, or no branch taken), every
\* caller returns it in turn, and align appends it and goes on scanning.
RetrieveReturn ==
  /\ pc = "retrieve"
  /\ IF S[<<ri, rj>>] = FInt(0) THEN TRUE ELSE MoveTaken(ri, rj, s) = 0
  /\ alignments' = Collect(alignments, out)
  /\ log' = Append(log, [start |-> <<i, j>>, stop |-> <<ri, rj>>, s |-> s])
  /\ i' = LoopNext(i, j, ScanColFirst)[1]
  /\ j' = LoopNext(i, j, ScanColFirst)[2]
  /\ pc' = "scan"
  /\ UNCHANGED <<str1, str2, epsilon, S, T, ri, rj, s, out,
                 seg_p, seg_q, called, ret, prev>>

\* return alignments
Return ==
  /\ pc = "scan"
  /\ LoopDone(i, ScanColFirst)
  /\ pc' = "done"
  /\ UNCHANGED <<str1, str2, epsilon, S, i, j, T, alignments, ri, rj, s, out,
                 log, seg_p, seg_q, called, ret, prev>>

NoReturn == [raised |-> FALSE, value |-> FInt(0)]

Init ==
  /\ str1 \in SeqsUpTo(Alphabet, MaxLen1)
  /\ str2 \in SeqsUpTo(Alphabet, MaxLen2)
  /\ epsilon \in Epsilons
  /\ pc = "fill"
  /\ S = Zeros(Len(str1), Len(str2))
  /\ i = FillFirst
  /\ j = FillFirst
  /\ T = FInt(0)
  /\ alignments = <<>>
  /\ ri = 0
  /\ rj = 0
  /\ s = FInt(0)
  /\ out = <<>>
  /\ log = <<>>
  /\ seg_p = "none"
  /\ seg_q = "none"
  /\ called = "none"
  /\ ret = NoReturn
  /\ prev = <<>>

Next ==
  \/ FillCell
  \/ Threshold
  \/ ScanSkip
  \/ ScanStart
  \/ Retrieve
  \/ RetrieveReturn
  \/ Return

Spec == Init /\ [][Next]_vars

\* ---------------------------------------------------------------------------
\* The scoring functions called on their own, on every pair of segments of the
\* feature table and on "1", which is not in it.
\* ---------------------------------------------------------------------------
ScoreArgs == sounds \cup {"1"}

InitScore ==
  /\ seg_p \in ScoreArgs
  /\ seg_q \in ScoreArgs
  /\ called = "none"
  /\ ret = NoReturn
  /\ pc = "score"
  /\ str1 = <<>>
  /\ str2 = <<>>
  /\ epsilon = FInt(0)
  /\ S = Zeros(0, 0)
  /\ i = FillFirst
  /\ j = FillFirst
  /\ T = FInt(0)
  /\ alignments = <<>>
  /\ ri = 0
  /\ rj = 0
  /\ s = FInt(0)
  /\ out = <<>>
  /\ log = <<>>
  /\ prev = <<>>

Call_delta ==
  /\ pc = "score"
  /\ called = "none"
  /\ called' = "delta"
  /\ ret' = IF deltaRaises(seg_p, seg_q)
            THEN [raised |-> TRUE, value |-> FInt(0)]
            ELSE [raised |-> FALSE, value |-> delta(seg_p, seg_q)]
  /\ UNCHANGED <<str1, str2, epsilon, pc, S, i, j, T, alignments, ri, rj, s,
                 out, log, seg_p, seg_q, prev>>

Call_sigma_sub ==
  /\ pc = "score"
  /\ called = "none"
  /\ called' = "sigma_sub"
  /\ ret' = IF sigma_subRaises(seg_p, seg_q)
            THEN [raised |-> TRUE, value |-> FInt(0)]
            ELSE [raised |-> FALSE, value |-> sigma_sub(seg_p, seg_q)]
  /\ UNCHANGED <<str1, str2, epsilon, pc, S, i, j, T, alignments, ri, rj, s,
                 out, log, seg_p, seg_q, prev>>

Call_V ==
  /\ pc = "score"
  /\ called = "none"
  /\ called' = "V"
  /\ ret' = [raised |-> FALSE, value |-> FInt(V(seg_p))]
  /\ UNCHANGED <<str1, str2, epsilon, pc, S, i, j, T, alignments, ri, rj, s,
                 out, log, seg_p, seg_q, prev>>

NextScore ==
  \/ Call_delta
  \/ Call_sigma_sub
  \/ Call_V

SpecScore == InitScore /\ [][NextScore]_vars

\* ---------------------------------------------------------------------------
\* align called again: once a call has returned, a second call on the same two
\* sequences with an epsilon that is not smaller. prev keeps the epsilon and the
\* returned list of the first call.
\* ---------------------------------------------------------------------------
\* The sequences called twice: known segments, a consonant and a vowel.
AgainAlphabet == {"j", "o"}

InitAgain ==
  /\ Init
  /\ str1 \in SeqsUpTo(AgainAlphabet, MaxLen1)
  /\ str2 \in SeqsUpTo(AgainAlphabet, MaxLen2)

CallAgain ==
  /\ pc = "done"
  /\ prev = <<>>
  /\ prev' = <<[epsilon |-> epsilon, alignments |-> alignments]>>
  /\ \E e \in Epsilons : FLe(epsilon, e) /\ epsilon' = e
  /\ pc' = "fill"
  /\ S' = Zeros(Len(str1), Len(str2))
  /\ i' = FillFirst
  /\ j' = FillFirst
  /\ T' = FInt(0)
  /\ alignments' = <<>>
  /\ ri' = 0
  /\ rj' = 0
  /\ s' = FInt(0)
  /\ out' = <<>>
  /\ log' = <<>>
  /\ UNCHANGED <<str1, str2, seg_p, seg_q, called, ret>>

NextAgain ==
  \/ Next
  \/ CallAgain

SpecAgain == InitAgain /\ [][NextAgain]_vars

\* ---------------------------------------------------------------------------
\* align called on the examples of the module docstring: each of the two
\* pairs of sequences with each of the two tolerances.
\* ---------------------------------------------------------------------------
InitDoc ==
  /\ \E d \in DocExamples, e \in DocExamples :
       /\ str1 = d[1]
       /\ str2 = d[2]
       /\ epsilon = e[3]
  /\ pc = "fill"
  /\ S = Zeros(Len(str1), Len(str2))
  /\ i = FillFirst
  /\ j = FillFirst
  /\ T = FInt(0)
  /\ alignments = <<>>
  /\ ri = 0
  /\ rj = 0
  /\ s = FInt(0)
  /\ out = <<>>
  /\ log = <<>>
  /\ seg_p = "none"
  /\ seg_q = "none"
  /\ called = "none"
  /\ ret = NoReturn
  /\ prev = <<>>

SpecDoc == InitDoc /\ [][Next]_vars

\* ---------------------------------------------------------------------------
\* align called with any tolerance: 0, 0.5, 1, and 2, for which the threshold
\* is negative.
\* ---------------------------------------------------------------------------
EpsilonsAny == Epsilons \cup {FInt(2)}

InitAny ==
  /\ str1 \in SeqsUpTo(Alphabet, MaxLen1)
  /\ str2 \in SeqsUpTo(Alphabet, MaxLen2)
  /\ epsilon \in EpsilonsAny
  /\ pc = "fill"
  /\ S = Zeros(Len(str1), Len(str2))
  /\ i = FillFirst
  /\ j = FillFirst
  /\ T = FInt(0)
  /\ alignments = <<>>
  /\ ri = 0
  /\ rj = 0
  /\ s = FInt(0)
  /\ out = <<>>
  /\ log = <<>>
  /\ seg_p = "none"
  /\ seg_q = "none"
  /\ called = "none"
  /\ ret = NoReturn
  /\ prev = <<>>

SpecAny == InitAny /\ [][Next]_vars

\* ---------------------------------------------------------------------------
\* Properties.
\* ---------------------------------------------------------------------------

\* align has returned its list.
Returned == pc = "done"

\* The cells of the two loops over 1 .. m and 1 .. n.
InnerCells == (1 .. m) \X (1 .. n)

\* The greatest element of a non-empty set of floats.
FMaxOf(X) == CHOOSE x \in X : \A y \in X : FLe(y, x)

\* The candidates of the recurrence at cell c, from the matrix as it stands.
C1_Candidates(c) ==
  {FAdd(S[<<c[1] - 1, c[2]>>], sigma_skip(str1[c[1]])),
   FAdd(S[<<c[1], c[2] - 1>>], sigma_skip(str2[c[2]])),
   FAdd(S[<<c[1] - 1, c[2] - 1>>], sub_score(str1[c[1]], str2[c[2]])),
   FInt(0)}
  \cup (IF c[1] > 1
        THEN {FAdd(S[<<c[1] - 2, c[2] - 1>>],
                   exp_score(str2[c[2]], SubSeq(str1, c[1] - 1, c[1])))}
        ELSE {})
  \cup (IF c[2] > 1
        THEN {FAdd(S[<<c[1] - 1, c[2] - 2>>],
                   exp_score(str1[c[1]], SubSeq(str2, c[2] - 1, c[2])))}
        ELSE {})

\* C1: in the matrix align has built, row 0 and column 0 are 0 and every other
\* cell is the greatest of: the cell above plus the indel score, the cell to the
\* left plus the indel score, the diagonal cell plus the substitution score,
\* S[i-2,j-1] plus the score of str2[j-1] against str1[i-2:i] when i > 1,
\* S[i-1,j-2] plus the score of str1[i-1] against str2[j-2:j] when j > 1, and 0.
C1_Recurrence ==
  Returned =>
    /\ DOMAIN S = (0 .. m) \X (0 .. n)
    /\ \A c \in DOMAIN S : (c[1] = 0 \/ c[2] = 0) => S[c] = FInt(0)
    /\ \A c \in InnerCells : S[c] = FMaxOf(C1_Candidates(c))

\* C1 witness: a returned matrix with a cell beyond row 1 and column 1, where
\* all six candidates exist, whose substitution candidate is not the greatest.
C1_Witness ==
  /\ Returned
  /\ m > 1
  /\ n > 1
  /\ FLt(FAdd(S[<<m - 1, n - 1>>], sub_score(str1[m], str2[n])), S[<<m, n>>])

\* The moves as C2 lists them: the condition under which the k-th is tried, the
\* cell it continues from, the pair it prepends and its score.
C2_Pred(k) ==
  CASE k = 1 -> <<ri - 1, rj - 2>>
    [] k = 2 -> <<ri - 2, rj - 1>>
    [] k = 3 -> <<ri - 1, rj - 1>>
    [] k = 4 -> <<ri, rj - 1>>
    [] k = 5 -> <<ri - 1, rj>>

C2_Pair(k) ==
  CASE k = 1 -> <<(<<str1[ri]>>), (<<str2[rj - 1], str2[rj]>>)>>
    [] k = 2 -> <<(<<str1[ri - 1], str1[ri]>>), (<<str2[rj]>>)>>
    [] k = 3 -> <<(<<str1[ri]>>), (<<str2[rj]>>)>>
    [] k = 4 -> <<(<<"-">>), (<<str2[rj]>>)>>
    [] k = 5 -> <<(<<str1[ri]>>), (<<"-">>)>>

C2_Cost(k) ==
  CASE k = 1 -> exp_score(str1[ri], <<str2[rj - 1], str2[rj]>>)
    [] k = 2 -> exp_score(str2[rj], <<str1[ri - 1], str1[ri]>>)
    [] k = 3 -> sub_score(str1[ri], str2[rj])
    [] k = 4 -> FInt(C_skip)
    [] k = 5 -> FInt(C_skip)

C2_Qualifies(k) ==
  /\ k = 1 => rj > 1
  /\ k = 2 => ri > 1
  /\ FLe(T, FAdd(FAdd(S[C2_Pred(k)], C2_Cost(k)), s))

C2_Qualifying == {k \in 1 .. 5 : C2_Qualifies(k)}

C2_First == CHOOSE k \in C2_Qualifying : \A l \in C2_Qualifying : k <= l

\* C2: at a cell of non-zero score _retrieve takes the first of the five moves,
\* in the order expansion of str2, expansion of str1, substitution, gap in
\* str1, gap in str2, whose S[predecessor] + score + s reaches T: it prepends
\* that move's pair and goes on from its predecessor with s raised by its score.
C2_FixedPriority ==
  [][(pc = "retrieve" /\ S[<<ri, rj>>] # FInt(0) /\ C2_Qualifying # {})
       => /\ pc' = "retrieve"
          /\ <<ri', rj'>> = C2_Pred(C2_First)
          /\ out' = <<C2_Pair(C2_First)>> \o out
          /\ s' = FAdd(s, C2_Cost(C2_First))]_vars

\* C2 witness: a retrieval that has taken a move stands at a cell where the
\* first move and a later one both qualify.
C2_Witness ==
  /\ pc = "retrieve"
  /\ out # <<>>
  /\ S[<<ri, rj>>] # FInt(0)
  /\ 1 \in C2_Qualifying
  /\ Cardinality(C2_Qualifying) > 1

\* The cells of a set whose score reaches the threshold.
AtThreshold(cells) == {c \in cells : FLe(T, S[c])}

\* The starting cells of the retrievals, in the order of the returned list.
Starts == {log[k].start : k \in 1 .. Len(log)}

\* C3 as stated: one alignment for each cell of the whole matrix, row 0 and
\* column 0 included, whose score is >= T.
C3_AllCells ==
  Returned =>
    /\ Len(alignments) = Cardinality(AtThreshold(DOMAIN S))
    /\ Starts = AtThreshold(DOMAIN S)

\* C3, amended: T = (1 - epsilon) * max(S), and align returns exactly one
\* alignment for each cell (i,j) with 1 <= i <= m and 1 <= j <= n whose score
\* is >= T and none for any other cell; row 0 and column 0 are not scanned.
C3_InnerCells ==
  Returned =>
    /\ T = FMul(FSub(FInt(1), epsilon), FMaxOf({S[c] : c \in DOMAIN S}))
    /\ Len(alignments) = Len(log)
    /\ Len(alignments) = Cardinality(AtThreshold(InnerCells))
    /\ Starts = AtThreshold(InnerCells)

\* C3 witness: a call that returned several alignments and passed over a cell
\* below the threshold, with cells of row 0 and column 0 at the threshold.
C3_Witness ==
  /\ Returned
  /\ Len(alignments) > 1
  /\ AtThreshold(InnerCells) # InnerCells
  /\ AtThreshold(InnerCells) # {}

\* The score of one pair of an alignment, by its shape: the indel score for a
\* gap, the substitution score for one segment against one, the expansion score
\* for one segment against two.
PairScore(pr) ==
  IF pr[1] = <<"-">> \/ pr[2] = <<"-">> THEN FInt(C_skip)
  ELSE IF Len(pr[1]) = 1 /\ Len(pr[2]) = 1 THEN sub_score(pr[1][1], pr[2][1])
  ELSE IF Len(pr[2]) = 2 THEN exp_score(pr[1][1], pr[2])
  ELSE exp_score(pr[2][1], pr[1])

\* The sum of the scores of the first k pairs of an alignment.
RECURSIVE TotalScore(_, _)
TotalScore(al, k) ==
  IF k = 0 THEN FInt(0) ELSE FAdd(TotalScore(al, k - 1), PairScore(al[k]))

\* C4: every returned alignment has a total score >= T and <= the score of its
\* starting cell, and with epsilon = 0 a total score equal to max(S).
C4_ScoreReachesThreshold ==
  Returned =>
    \A k \in 1 .. Len(alignments) :
      LET total == TotalScore(alignments[k], Len(alignments[k]))
      IN  /\ FLe(T, total)
          /\ FLe(total, S[log[k].start])
          /\ epsilon = FInt(0) => total = FMaxOf({S[c] : c \in DOMAIN S})

\* The segments of the non-gap components of a list of pairs, in order.
RECURSIVE Concat(_, _, _)
Concat(al, side, k) ==
  IF k = 0 THEN <<>>
  ELSE Concat(al, side, k - 1)
         \o (IF al[k][side] = <<"-">> THEN <<>> ELSE al[k][side])

\* The pair is one of the five shapes, its segments taken from str1 and str2.
C5_Shape(pr) ==
  /\ pr[1] # <<"-">> \/ pr[2] # <<"-">>
  /\ Len(pr[1]) \in {1, 2}
  /\ Len(pr[2]) \in {1, 2}
  /\ Len(pr[1]) = 1 \/ Len(pr[2]) = 1
  /\ (pr[1] = <<"-">> \/ pr[2] = <<"-">>) => (Len(pr[1]) = 1 /\ Len(pr[2]) = 1)

\* C5: every returned alignment is a list of pairs of the shapes 1-1, 1-2, 2-1,
\* gap-1 and 1-gap, never gap-gap nor 2-2, and from a start (i,j) to the cell
\* (i0,j0) where its retrieval stopped the non-gap first components spell
\* str1[i0:i] and the non-gap second components str2[j0:j].
C5_AlignmentShape ==
  Returned =>
    \A k \in 1 .. Len(alignments) :
      LET al == alignments[k]
      IN  /\ \A x \in 1 .. Len(al) : C5_Shape(al[x])
          /\ Concat(al, 1, Len(al))
               = SubSeq(str1, log[k].stop[1] + 1, log[k].start[1])
          /\ Concat(al, 2, Len(al))
               = SubSeq(str2, log[k].stop[2] + 1, log[k].start[2])

\* C5 witness: a returned list holds an alignment with a 1-2 pair, one with a
\* 2-1 pair and one with a gap.
C5_Witness ==
  /\ Returned
  /\ \E k \in 1 .. Len(alignments) :
       \E x \in 1 .. Len(alignments[k]) : Len(alignments[k][x][2]) = 2
  /\ \E k \in 1 .. Len(alignments) :
       \E x \in 1 .. Len(alignments[k]) : Len(alignments[k][x][1]) = 2
  /\ \E k \in 1 .. Len(alignments) :
       \E x \in 1 .. Len(alignments[k]) : alignments[k][x][1] = <<"-">>

\* C6: delta and sigma_sub are symmetric on the segments of the feature table.
C6_Symmetry ==
  (seg_p \in sounds /\ seg_q \in sounds) =>
    /\ called = "delta" => (~ret.raised /\ ret.value = delta(seg_q, seg_p))
    /\ called = "sigma_sub"
         => (~ret.raised /\ ret.value = sigma_sub(seg_q, seg_p))

\* C6 witness: sigma_sub has scored a consonant against a vowel.
C6_Witness ==
  /\ called = "sigma_sub"
  /\ seg_p \in sounds \cap consonants
  /\ seg_q \in sounds \ consonants
  /\ ~ret.raised
  /\ FLt(ret.value, FInt(C_sub))

\* C7: for a segment a of the feature table delta(a,a) = 0 and
\* sigma_sub(a,a) = C_sub - 2*V(a), V(a) being 0 for a consonant and C_vwl for
\* a vowel, and no sigma_sub(a,b) exceeds sigma_sub(a,a).
C7_SelfIdentity ==
  (seg_p \in sounds /\ seg_q \in sounds) =>
    /\ (called = "delta" /\ seg_p = seg_q) => ret.value = FInt(0)
    /\ (called = "sigma_sub" /\ seg_p = seg_q)
         => ret.value
              = FInt(C_sub - 2 * (IF seg_p \in consonants THEN 0 ELSE C_vwl))
    /\ called = "sigma_sub"
         => FLe(ret.value,
                FInt(C_sub - 2 * (IF seg_p \in consonants THEN 0 ELSE C_vwl)))

\* C7 witness: sigma_sub has scored a vowel against itself.
C7_Witness ==
  /\ called = "sigma_sub"
  /\ seg_p = seg_q
  /\ seg_p \in sounds \ consonants
  /\ ret.value = FInt(C_sub - 2 * C_vwl)

\* C8: no cell of the matrix is negative, during the fill and after it.
C8_NonNegative == \A c \in DOMAIN S : FLe(FInt(0), S[c])

\* C8 witness: the fill has written cell (1, 1) with a positive value although
\* one of its candidates, the expansion out of row -1, is negative.
C8_Witness ==
  /\ pc = "fill" /\ m > 0 /\ n > 1 /\ i = 1 /\ j = 2
  /\ FLt(edit4(S, 1, 1), FInt(0))
  /\ FLt(FInt(0), S[<<1, 1>>])

\* A segment of an argument has no feature table entry.
HasUnknown ==
  \/ \E k \in 1 .. m : str1[k] \notin sounds
  \/ \E k \in 1 .. n : str2[k] \notin sounds

\* C9 as stated: with an unknown segment in either argument the call fails
\* and returns no list, whatever the two sequences are.
C9_UnknownAlwaysRaises == HasUnknown => ~Returned

\* C9, amended: if both sequences are non-empty and a segment of either has
\* no feature table entry, the call fails with the KeyError of a lookup raised
\* during the matrix fill and returns no list: the fill never completes, and
\* no cell is filled whose segments are not both in the table.
C9_UnknownRaisesInFill ==
  (HasUnknown /\ m > 0 /\ n > 0) =>
    /\ pc \in {"fill", "raised"}
    /\ alignments = <<>>
    /\ i <= m
    /\ j <= n
    /\ \A c \in InnerCells :
         S[c] # FInt(0) => (str1[c[1]] \in sounds /\ str2[c[2]] \in sounds)
    /\ (pc = "fill" /\ (str1[i] \notin sounds \/ str2[j] \notin sounds))
         => CellRaises(i, j)

\* C9 witness: the KeyError was raised after part of the matrix was filled.
C9_Witness ==
  /\ pc = "raised"
  /\ HasUnknown
  /\ i > 1
  /\ S[<<1, 1>>] # FInt(0)

\* C10: with an empty str1 or an empty str2 align raises nothing, fills no
\* cell, runs no retrieval and returns the empty list.
C10_EmptyArgument ==
  (pc # "score" /\ (m = 0 \/ n = 0)) =>
    /\ pc \in {"fill", "scan", "done"}
    /\ \A c \in DOMAIN S : S[c] = FInt(0)
    /\ alignments = <<>>
    /\ log = <<>>
    /\ pc # "done" => ENABLED (Threshold \/ Return)

\* C10 witness: align has returned for an empty str1 and a str2 that holds a
\* segment without feature table entry.
C10_Witness ==
  /\ Returned
  /\ m = 0
  /\ n > 0
  /\ HasUnknown
  /\ alignments = <<>>

\* C11: of two calls of align on the same sequences of known segments, the one
\* with the larger (or equal) epsilon returns at least as many alignments.
C11_MonotonicCount ==
  (pc = "done" /\ prev # <<>>) =>
    Len(prev[1].alignments) <= Len(alignments)

\* C11 witness: the second call, with a larger epsilon, has returned more
\* alignments than the first.
C11_Witness ==
  /\ pc = "done"
  /\ prev # <<>>
  /\ FLt(prev[1].epsilon, epsilon)
  /\ Len(prev[1].alignments) > 0
  /\ Len(prev[1].alignments) < Len(alignments)

\* C12: of two calls of align on the same sequences of known segments with
\* 0 <= epsilon1 <= epsilon2, every alignment the first call returns also occurs
\* in the list the second call returns.
C12_Superset ==
  (pc = "done" /\ prev # <<>>) =>
    \A k \in 1 .. Len(prev[1].alignments) :
      \E l \in 1 .. Len(alignments) : alignments[l] = prev[1].alignments[k]

\* C13: align('\u03b8in', 'tenwis', 0) returns a list that contains
\* [('\u03b8','t'), ('i','e'), ('n','n'), ('-','w'), ('-','i'), ('-','s')].
C13_DocExample ==
  (/\ pc \in {"done", "raised"}
   /\ str1 = <<"u03b8", "i", "n">>
   /\ str2 = <<"t", "e", "n", "w", "i", "s">>
   /\ epsilon = FInt(0)) =>
    /\ pc = "done"
    /\ \E k \in 1 .. Len(alignments) :
         alignments[k] = << <<(<<"u03b8">>), (<<"t">>)>>,
                            <<(<<"i">>), (<<"e">>)>>,
                            <<(<<"n">>), (<<"n">>)>>,
                            <<(<<"-">>), (<<"w">>)>>,
                            <<(<<"-">>), (<<"i">>)>>,
                            <<(<<"-">>), (<<"s">>)>> >>

\* C13 witness: that call has returned, with exactly one alignment, retrieved
\* from cell (3, 6) down to cell (0, 0).
C13_Witness ==
  /\ pc = "done"
  /\ str1 = <<"u03b8", "i", "n">>
  /\ str2 = <<"t", "e", "n", "w", "i", "s">>
  /\ epsilon = FInt(0)
  /\ Len(alignments) = 1
  /\ log[1].start = <<3, 6>>
  /\ log[1].stop = <<0, 0>>

\* C14: align('t\u0259\u014b', 'tsu\u014b\u0259', 0.1) returns at least two alignments, and one of
\* them contains the expansion pair ('t', 'ts').
C14_DocExample ==
  (/\ pc \in {"done", "raised"}
   /\ str1 = <<"t", "u0259", "u014b">>
   /\ str2 = <<"t", "s", "u", "u014b", "u0259">>
   /\ epsilon = Lit(20)) =>
    /\ pc = "done"
    /\ Len(alignments) >= 2
    /\ \E k \in 1 .. Len(alignments) :
         \E x \in 1 .. Len(alignments[k]) :
           alignments[k][x] = <<(<<"t">>), (<<"t", "s">>)>>

\* C14 witness: that call has returned two different alignments, the second of
\* them retrieved through the expansion branch at cell (1, 2).
C14_Witness ==
  /\ pc = "done"
  /\ str1 = <<"t", "u0259", "u014b">>
  /\ str2 = <<"t", "s", "u", "u014b", "u0259">>
  /\ epsilon = Lit(20)
  /\ Len(alignments) = 2
  /\ alignments[1] # alignments[2]
  /\ alignments[2][1] = <<(<<"t">>), (<<"t", "s">>)>>

\* The features the claim calls relevant: R_v when neither segment is in the
\* consonant list, R_c otherwise.
C15_Relevant(a, b) ==
  IF a \notin consonants /\ b \notin consonants THEN R_v ELSE R_c

\* The weighted feature difference as a decimal, in units of 1/AUnit.
C15_Term(a, b, f) ==
  LET d == similarity_matrix[feature_matrix[a][f]]
             - similarity_matrix[feature_matrix[b][f]]
  IN  salience[f] * (IF d < 0 THEN -d ELSE d)

\* The exact sum of the terms of the first k features.
RECURSIVE C15_ExactSum(_, _, _, _)
C15_ExactSum(a, b, features, k) ==
  IF k = 0 THEN 0
  ELSE C15_ExactSum(a, b, features, k - 1) + C15_Term(a, b, features[k])

\* The same sum in binary64, the terms added in the order of the list.
RECURSIVE C15_FloatSum(_, _, _, _)
C15_FloatSum(a, b, features, k) ==
  IF k = 0 THEN FInt(0)
  ELSE FAdd(C15_FloatSum(a, b, features, k - 1),
            FMulInt(FAbs(FSub(Lit(similarity_matrix[feature_matrix[a][features[k]]]),
                              Lit(similarity_matrix[feature_matrix[b][features[k]]]))),
                    salience[features[k]]))

\* C15: for segments a, b of the feature table delta(a, b) is the sum, over the
\* relevant features f, of salience[f] * |similarity of a's f - similarity of
\* b's f|: the binary64 sum taken in list order, whose decimal is the exact sum.
C15_DeltaIsWeightedSum ==
  (called = "delta" /\ seg_p \in sounds /\ seg_q \in sounds) =>
    LET features == C15_Relevant(seg_p, seg_q)
    IN  /\ ~ret.raised
        /\ ret.value = C15_FloatSum(seg_p, seg_q, features, Len(features))
        /\ ret.value[1] = C15_ExactSum(seg_p, seg_q, features, Len(features))

\* C15 witness: delta has compared a consonant with a vowel and found them
\* different.
C15_Witness ==
  /\ called = "delta"
  /\ seg_p \in sounds \cap consonants
  /\ seg_q \in sounds \ consonants
  /\ ~ret.raised
  /\ FLt(FInt(0), ret.value)

\* The vowel weight of the claim: 0 for a segment of the consonant list, C_vwl
\* for any other.
C16_VowelWeight(a) == IF a \in consonants THEN 0 ELSE C_vwl

\* C16: for segments a, b of the feature table
\* sigma_sub(a, b) = C_sub - delta(a, b) - V(a) - V(b), with V(x) = 0 for x in
\* the consonant list and V(x) = C_vwl exactly for any other x.
C16_SubstitutionScore ==
  /\ (called = "V" /\ seg_p \in sounds) =>
       (~ret.raised /\ ret.value = FInt(C16_VowelWeight(seg_p)))
  /\ (called = "sigma_sub" /\ seg_p \in sounds /\ seg_q \in sounds) =>
       /\ ~ret.raised
       /\ ret.value = FSub(FSub(FSub(FInt(C_sub), delta(seg_p, seg_q)),
                                 FInt(C16_VowelWeight(seg_p))),
                            FInt(C16_VowelWeight(seg_q)))
       /\ ret.value[1] = (C_sub - C16_VowelWeight(seg_p)
                            - C16_VowelWeight(seg_q)) * AUnit
                          - delta(seg_p, seg_q)[1]

\* C16 witness: sigma_sub has scored a vowel against a consonant, C_vwl taken
\* off once.
C16_Witness ==
  /\ called = "sigma_sub"
  /\ seg_p \in sounds \ consonants
  /\ seg_q \in sounds \cap consonants
  /\ ~ret.raised
  /\ ret.value[1] = (C_sub - C_vwl) * AUnit - delta(seg_p, seg_q)[1]

\* The expansion score of the claim for segment a against the two segments
\* b1 b2: C_exp - delta(a,b1) - delta(a,b2) - V(a) - max(V(b1), V(b2)).
C17_VowelWeight(a) == IF a \in consonants THEN 0 ELSE C_vwl

C17_ExpValue(a, b1, b2) ==
  FSub(FSub(FSub(FSub(FInt(C_exp), delta(a, b1)), delta(a, b2)),
            FInt(C17_VowelWeight(a))),
       FInt(IF C17_VowelWeight(b1) > C17_VowelWeight(b2)
            THEN C17_VowelWeight(b1) ELSE C17_VowelWeight(b2)))

\* Its values on the table segments of the alphabet, computed once.
C17_ExpTable ==
  Tabulate([t \in (Alphabet \cap sounds) \X (Alphabet \cap sounds)
                   \X (Alphabet \cap sounds) |->
              C17_ExpValue(t[1], t[2], t[3])])

C17_Exp(a, b1, b2) == C17_ExpTable[<<a, b1, b2>>]

\* A step of the fill that writes cell (i, j): the candidate of the compression
\* (two segments of str1 against str2[j]) and of the expansion (str1[i] against
\* two segments of str2) are among those the new value is the maximum of.
C17_FillStep ==
  (pc = "fill" /\ pc' = "fill" /\ S' # S) =>
    /\ i > 1 => FLe(FAdd(S[<<i - 2, j - 1>>],
                          C17_Exp(str2[j], str1[i - 1], str1[i])),
                     S'[<<i, j>>])
    /\ j > 1 => FLe(FAdd(S[<<i - 1, j - 2>>],
                          C17_Exp(str1[i], str2[j - 1], str2[j])),
                     S'[<<i, j>>])

\* A step of _retrieve that prepends a pair with two segments on one side adds
\* the score of the single segment against the two.
C17_RetrieveStep ==
  (pc = "retrieve" /\ pc' = "retrieve") =>
    /\ Len(out'[1][1]) = 2 =>
         /\ out'[1] = <<SubSeq(str1, ri - 1, ri), SubSeq(str2, rj, rj)>>
         /\ s' = FAdd(s, C17_Exp(str2[rj], str1[ri - 1], str1[ri]))
    /\ Len(out'[1][2]) = 2 =>
         /\ out'[1] = <<SubSeq(str1, ri, ri), SubSeq(str2, rj - 1, rj)>>
         /\ s' = FAdd(s, C17_Exp(str1[ri], str2[rj - 1], str2[rj]))

\* C17: sigma_exp(a, b1b2) = C_exp - delta(a,b1) - delta(a,b2) - V(a)
\* - max(V(b1), V(b2)), and a compression is scored by the same function with
\* the segment of str2 as a and the two segments of str1 as b1 b2, in the fill
\* and in the retrieval.
C17_ExpansionScore == [][C17_FillStep /\ C17_RetrieveStep]_vars

\* C17 witness: align has returned an alignment that holds a compression of two
\* segments of str1 of which one is a vowel and the other a consonant.
C17_Witness ==
  /\ pc = "done"
  /\ \E k \in 1 .. Len(alignments) :
       \E x \in 1 .. Len(alignments[k]) :
         /\ Len(alignments[k][x][1]) = 2
         /\ alignments[k][x][1][1] \in consonants
         /\ alignments[k][x][1][2] \notin consonants

\* C18: align does not deduplicate: the list holds one alignment for each
\* retrieval it started, the retrievals start at different cells, and two of
\* the alignments can be equal.
C18_NoDeduplication ==
  /\ Len(alignments) = Len(log)
  /\ \A k \in 1 .. Len(log) :
       \A l \in (k + 1) .. Len(log) : log[k].start # log[l].start

\* C18 witness: align has returned a list in which two alignments, retrieved
\* from two different starting cells, are equal.
C18_Witness ==
  /\ pc = "done"
  /\ epsilon \in Epsilons
  /\ \E k \in 1 .. Len(alignments) :
       \E l \in (k + 1) .. Len(alignments) :
         /\ alignments[k] = alignments[l]
         /\ log[k].start # log[l].start

\* C19: every retrieval align starts at a cell with S[i,j] >= T stops at a cell
\* whose score is 0, after at most i+j moves; it never stops at a cell with a
\* positive score because none of the five moves met the threshold.
C19_StopsAtZero ==
  \A k \in 1 .. Len(log) :
    /\ S[log[k].stop] = FInt(0)
    /\ Len(alignments[k]) <= log[k].start[1] + log[k].start[2]

\* The sum of the salience weights of the first k features of a list.
RECURSIVE C20_WeightSum(_, _)
C20_WeightSum(features, k) ==
  IF k = 0 THEN 0 ELSE C20_WeightSum(features, k - 1) + salience[features[k]]

\* Every salience weight is a positive integer, and when delta has compared two
\* segments of the feature table of which one is a consonant, the features it
\* weighed are the eight of R_c and their weights sum to total.
C20_Weights(total) ==
  /\ \A f \in DOMAIN salience : salience[f] \in Nat /\ salience[f] > 0
  /\ (/\ called = "delta"
      /\ seg_p \in sounds
      /\ seg_q \in sounds
      /\ seg_p \in consonants \/ seg_q \in consonants) =>
       LET features == R(seg_p, seg_q)
       IN  /\ {features[k] : k \in 1 .. Len(features)} =
                {"aspirated", "lateral", "manner", "nasal", "place",
                 "retroflex", "syllabic", "voice"}
           /\ Len(features) = 8
           /\ C20_WeightSum(features, Len(features)) = total

\* C20 as stated: the salience weights are positive integers and the weights of
\* the consonant feature set R_c (aspirated, lateral, manner, nasal, place,
\* retroflex, syllabic, voice) sum to 100.
C20_SalienceSum100 == C20_Weights(100)

\* C20 amended: the salience weights are positive integers and the weights of
\* the consonant feature set R_c sum to 140 (5 + 10 + 50 + 10 + 40 + 10 + 5 + 10).
C20_SalienceSum140 == C20_Weights(140)

\* C20 witness: delta has compared two consonants that differ in manner only,
\* and the result is the manner weight times the difference of their manners.
C20_Witness ==
  /\ called = "delta"
  /\ seg_p \in sounds \cap consonants
  /\ seg_q \in sounds \cap consonants
  /\ \A f \in DOMAIN feature_matrix[seg_p] \ {"manner"} :
        feature_matrix[seg_p][f] = feature_matrix[seg_q][f]
  /\ feature_matrix[seg_p]["manner"] # feature_matrix[seg_q]["manner"]
  /\ ~ret.raised
  /\ ret.value[1] =
       salience["manner"] *
         (LET d == similarity_matrix[feature_matrix[seg_p]["manner"]]
                     - similarity_matrix[feature_matrix[seg_q]["manner"]]
          IN  IF d < 0 THEN -d ELSE d)

\* The features compared for a and b as the claim names them.
C21_Relevant(a, b) ==
  IF a \in consonants \/ b \in consonants THEN R_c ELSE R_v

\* For every pair of table segments every relevant feature is defined for both
\* segments, with a value of the similarity scale and a salience weight.
C21_TablesComplete ==
  \A a \in sounds, b \in sounds :
    \A k \in 1 .. Len(C21_Relevant(a, b)) :
      /\ C21_Relevant(a, b)[k] \in DOMAIN feature_matrix[a]
      /\ C21_Relevant(a, b)[k] \in DOMAIN feature_matrix[b]
      /\ feature_matrix[a][C21_Relevant(a, b)[k]] \in DOMAIN similarity_matrix
      /\ feature_matrix[b][C21_Relevant(a, b)[k]] \in DOMAIN similarity_matrix
      /\ C21_Relevant(a, b)[k] \in DOMAIN salience

\* The cells of S the fill of cell (a, b) reads and writes.
C21_FillCells(a, b) ==
  {<<a, b>>, <<a - 1, b>>, <<a, b - 1>>, <<a - 1, b - 1>>}
    \cup (IF a > 1 THEN {<<a - 2, b - 1>>} ELSE {})
    \cup (IF b > 1 THEN {<<a - 1, b - 2>>} ELSE {})

\* The cells of S a call of _retrieve at (a, b) reads: its own, and past the
\* test S[i,j] == 0 those of the five branches.
C21_RetrieveCells(a, b) ==
  {<<a, b>>}
    \cup (IF <<a, b>> \in DOMAIN S /\ S[<<a, b>>] = FInt(0) THEN {}
          ELSE {<<a - 1, b - 1>>, <<a, b - 1>>, <<a - 1, b>>}
                 \cup (IF b > 1 THEN {<<a - 1, b - 2>>} ELSE {})
                 \cup (IF a > 1 THEN {<<a - 2, b - 1>>} ELSE {}))

\* The indexes used at the current position are within bounds: rows in 0 .. m,
\* columns in 0 .. n, and the segments read are segments of str1 and of str2.
C21_IndexesInBounds ==
  /\ (pc = "fill" /\ ~LoopDone(i, FillFirst)) =>
        /\ C21_FillCells(i, j) \subseteq (0 .. m) \X (0 .. n)
        /\ i \in 1 .. m
        /\ j \in 1 .. n
  /\ (pc = "scan" /\ ~LoopDone(i, ScanColFirst)) =>
        <<i, j>> \in (0 .. m) \X (0 .. n)
  /\ pc = "retrieve" =>
        /\ C21_RetrieveCells(ri, rj) \subseteq (0 .. m) \X (0 .. n)
        /\ S[<<ri, rj>>] # FInt(0) => (ri \in 1 .. m /\ rj \in 1 .. n)
  /\ DOMAIN S = (0 .. m) \X (0 .. n)

\* Both sequences are non-empty and all their segments are table segments.
C21_Known == m > 0 /\ n > 0 /\ ~HasUnknown

\* The number of passes of the two nested loops still to make.
C21_PassesLeft == IF i > m THEN 0 ELSE (m - i) * n + (n - j) + 1

\* A bound on the steps align still has to take: every pass of the scan takes
\* at most the start of a retrieval, ri + rj calls of _retrieve and its return.
C21_StepsLeft ==
  CASE pc = "fill" -> C21_PassesLeft + 2 + m * n * (m + n + 2)
    [] pc = "scan" -> 1 + C21_PassesLeft * (m + n + 2)
    [] pc = "retrieve" -> 2 + ri + rj + (C21_PassesLeft - 1) * (m + n + 2)
    [] OTHER -> 0

\* C21: for two non-empty sequences of table segments and any epsilon >= 0
\* align raises no error and completes: every relevant feature of every pair of
\* table segments is defined for both segments, with a value in the similarity
\* scale and a weight in the salience table; every index into S, str1 and str2
\* used by the fill and by the retrieval is within bounds; and every step
\* brings the return nearer, so that the loops and the recursion end.
C21_NoError ==
  /\ [](C21_Known => (C21_TablesComplete /\ pc # "raised" /\ C21_IndexesInBounds))
  /\ [][C21_Known => (C21_StepsLeft' < C21_StepsLeft /\ C21_StepsLeft' >= 0)]_vars

\* C21 witness: align has returned for two sequences of table segments and a
\* tolerance above 1, with one alignment retrieved from every cell.
C21_Witness ==
  /\ pc = "done"
  /\ m = MaxLen1
  /\ n > 1
  /\ ~HasUnknown
  /\ FLt(FInt(1), epsilon)
  /\ FIsNeg(T)
  /\ Len(alignments) = m * n

\* The fill is over: every cell has its final score.
C22_Filled == pc \in {"scan", "retrieve", "done"}

\* Every cell inside the matrix is at least C_skip above the cell over it and
\* the cell left of it, is at least C_skip*(i+j-1), and the cells that score 0
\* are those of row 0 and of column 0.
C22_PositiveInside ==
  C22_Filled =>
    /\ \A c \in InnerCells :
         /\ FLe(FAdd(S[<<c[1] - 1, c[2]>>], FInt(C_skip)), S[c])
         /\ FLe(FAdd(S[<<c[1], c[2] - 1>>], FInt(C_skip)), S[c])
         /\ FLe(FInt(C_skip * (c[1] + c[2] - 1)), S[c])
    /\ {c \in DOMAIN S : S[c] = FInt(0)} = (DOMAIN S) \ InnerCells

\* Every retrieval has stopped in row 0 or in column 0.
C22_StopsAtBorder ==
  \A k \in 1 .. Len(log) : log[k].stop[1] = 0 \/ log[k].stop[2] = 0

\* C22: the 0 floor of the recurrence never binds: for 1 <= i <= m, 1 <= j <= n,
\* S[i,j] >= S[i-1,j] + C_skip, S[i,j] >= S[i,j-1] + C_skip and
\* S[i,j] >= C_skip*(i+j-1) > 0, the cells that score 0 are exactly row 0 and
\* column 0, and so the retrieval of every returned alignment stops at a cell
\* of row 0 or of column 0.
C22_FloorNeverBinds == C22_PositiveInside /\ C22_StopsAtBorder

\* C23: for two non-empty sequences of table segments and epsilon = 0 the
\* maximum of S is attained at cell (m,n) only, and align returns exactly one
\* alignment, retrieved from the starting cell (m,n): its non-gap components
\* spell the end of str1 up to its last segment and the end of str2 up to its
\* last segment.
C23_SingleAlignment ==
  (Returned /\ m > 0 /\ n > 0 /\ ~HasUnknown /\ epsilon = FInt(0)) =>
    /\ \A c \in (DOMAIN S) \ {<<m, n>>} : FLt(S[c], S[<<m, n>>])
    /\ T = S[<<m, n>>]
    /\ Len(alignments) = 1
    /\ Len(log) = 1
    /\ log[1].start = <<m, n>>
    /\ alignments[1] # <<>>
    /\ Concat(alignments[1], 1, Len(alignments[1]))
         = SubSeq(str1, log[1].stop[1] + 1, m)
    /\ Concat(alignments[1], 2, Len(alignments[1]))
         = SubSeq(str2, log[1].stop[2] + 1, n)
    /\ log[1].stop[1] < m \/ log[1].stop[2] < n

\* C23 witness: align has returned, for epsilon = 0 and sequences of two and of
\* three table segments, the one alignment retrieved from (m,n) back to (0,0).
C23_Witness ==
  /\ Returned
  /\ epsilon = FInt(0)
  /\ ~HasUnknown
  /\ m = 2
  /\ n = 3
  /\ Len(alignments) = 1
  /\ log[1].start = <<m, n>>
  /\ log[1].stop = <<0, 0>>

\* The best of the two skips and the substitution at cell (a, b) of matrix M.
C24_BestOfThree(M, a, b) ==
  FMax(FMax(FAdd(M[<<a - 1, b>>], FInt(C_skip)),
            FAdd(M[<<a, b - 1>>], FInt(C_skip))),
       FAdd(M[<<a - 1, b - 1>>], sub_score(str1[a], str2[b])))

\* The matrix of the recurrence with three operations (two skips, the
\* substitution, and 0), its cells filled in the order of the loops from cell
\* (a, b) on.
RECURSIVE C24_FillThree(_, _, _)
C24_FillThree(M, a, b) ==
  IF a > m \/ n < 1 THEN M
  ELSE C24_FillThree(
         [M EXCEPT ![<<a, b>>] = FMax(C24_BestOfThree(M, a, b), FInt(0))],
         IF b < n THEN a ELSE a + 1,
         IF b < n THEN b + 1 ELSE 1)

\* The fill has just ended: S is the matrix align built, and no retrieval has
\* started yet.
C24_FillOver == pc = "scan" /\ i = ScanRowFirst /\ j = ScanColFirst /\ log = <<>>

\* C24: the expansion and compression terms never raise a matrix score: at
\* every cell (i,j) the terms S[i-2,j-1] + sigma_exp(str2[j], str1[i-1..i]) and
\* S[i-1,j-2] + sigma_exp(str1[i], str2[j-1..j]) are at most the best of
\* S[i-1,j] + C_skip, S[i,j-1] + C_skip and S[i-1,j-1] + sigma_sub(str1[i],
\* str2[j]), and the matrix S align builds is, cell by cell, the matrix of the
\* recurrence with the two skips, the substitution and 0 only. (S is compared
\* when the fill ends; no later step changes it.)
C24_ExpansionNeverRaises ==
  /\ [](C24_FillOver =>
          /\ \A c \in InnerCells :
               /\ c[1] > 1 =>
                    FLe(edit4(S, c[1], c[2]), C24_BestOfThree(S, c[1], c[2]))
               /\ c[2] > 1 =>
                    FLe(edit5(S, c[1], c[2]), C24_BestOfThree(S, c[1], c[2]))
          /\ S = C24_FillThree(Zeros(m, n), 1, 1))
  /\ [][pc # "fill" => S' = S]_vars

\* C24 witness: the fill is over and at some cell an expansion or compression
\* term is positive and equal to the score of the cell, no higher than the best
\* of the other three.
C24_Witness ==
  /\ pc = "scan"
  /\ \E c \in InnerCells :
       /\ c[2] > 1
       /\ edit5(S, c[1], c[2]) = S[c]
       /\ C24_BestOfThree(S, c[1], c[2]) = S[c]
  /\ \E c \in InnerCells :
       /\ c[1] > 1
       /\ edit4(S, c[1], c[2]) = S[c]
       /\ C24_BestOfThree(S, c[1], c[2]) = S[c]

====
